---- MODULE Spec2Model ----
(***************************************************************************)
(* A model of osbuild.util.fscache: the key check `_check_dirname`, the    *)
(* open-file-description lock wrapper `_fcntl_flock`, and the methods of   *)
(* `Cache` (`load`, `store`), run by independent processes that share one  *)
(* cache root.  The maintenance routine has no code in fscache.py (only    *)
(* the module docstring announces it); its steps follow the design text.   *)
(***************************************************************************)
EXTENDS Integers, Sequences, FiniteSets, TLC

VARIABLES
    ncalls,     \* per process: calls begun so far
    mgr,        \* per process: "root" (_store_fd is a descriptor) or "noroot" (_store_fd is None)
    store,      \* the directory <root>/store: name -> directory record, or Absent
    pc,         \* per process: position inside the running call
    call,       \* per process: the running (or last) call and its arguments
    dir_fd,     \* per process: inode of the directory store() opened last and has
                \* not closed, 0 for none
    lock_fd,    \* per process: inode of the open lock file, 0 for None
    held,       \* per process: lock held by the description behind lock_fd
    entry_fd,   \* per process: inode of the open entry directory, 0 for None
    exc,        \* per process: exception travelling through `finally`
    result,     \* per process: outcome of the last finished call
    handed,     \* per process: content seen through the handle the call yielded
    fresh,      \* per process: history, the successful store right before this call
    pub,        \* per process: history, the entry was published when the call began
    maintained, \* history: a maintenance pass has begun on the root
    raced,      \* per process: history, another process ran a store of the same
                \* key while the call ran
    started,    \* per name: history, a store of this name has begun on the root
    vkey,       \* the string given to _check_dirname (specification SpecKey)
    verdict,    \* what _check_dirname returned for vkey
    cm_pc,      \* GuardedCM: position in `with cm as v: body`
    cm_stack,   \* GuardedCM: callbacks on self._guarded_exit_stack, last one last
    cm_nreg,    \* GuardedCM: number of callbacks guarded_enter() has registered
    cm_ran,     \* GuardedCM: per callback, how often it has run
    cm_exits,   \* GuardedCM: number of calls of guarded_exit()
    cm_exc,     \* GuardedCM: the exception raised by guarded_enter() or the body
    cm_value,   \* GuardedCM: what guarded_enter() returned
    cm_ret,     \* GuardedCM: what guarded_exit() returned
    cm_result,  \* GuardedCM: what the caller of the with-statement gets
    so_errnos,  \* suppress_oserror: the tuple of error numbers it was given
    so_pc,      \* suppress_oserror: position in `with suppress_oserror(...): body`
    so_raised,  \* suppress_oserror: what the body raised
    so_result,  \* suppress_oserror: what the caller of the with-statement gets
    root,       \* Cache(): the names present in the directory behind directory_fd
    init_pc,    \* Cache(): per process, position inside __init__
    directory_fd, \* Cache(): per process, the argument of __init__
    _store_fd,  \* Cache(): per process, the attribute _store_fd
    _staging_fd, \* Cache(): per process, the attribute _staging_fd
    init_result, \* Cache(): per process, outcome of the constructor call
    opens,      \* Cache(): per process, history: os.open calls that gave the
                \* manager a descriptor of store and of staging
    closes,     \* Cache(): per process, history: os.close calls of __del__ on the
                \* descriptor of store and of staging
    ndel,       \* Cache(): per process, number of runs of __del__
    ofd,        \* _fcntl_flock: per descriptor of one lock file, "closed", or the
                \* lock its open file description holds: "none", "R", "W"
    flock_last  \* _fcntl_flock: the last call and its outcome

fdVars == <<dir_fd, lock_fd, held, entry_fd>>

histVars == <<handed, fresh, started>>

cacheVars == <<ncalls, mgr, store, pc, call, fdVars, exc, result, pub, maintained, raced,
               histVars>>

keyVars == <<vkey, verdict>>

\* The variables of the specifications that stand beside the cache.
cmVars == <<cm_pc, cm_stack, cm_nreg, cm_ran, cm_exits, cm_exc, cm_value, cm_ret, cm_result>>

soVars == <<so_errnos, so_pc, so_raised, so_result>>

ctorVars == <<root, init_pc, directory_fd, _store_fd, _staging_fd, init_result,
              opens, closes, ndel>>

flockVars == <<ofd, flock_last>>

sideVars == <<keyVars, cmVars, soVars, ctorVars, flockVars>>

vars == <<cacheVars, sideVars>>

-----------------------------------------------------------------------------
(* Bounds *)

MaxCalls == 2
MaxLen == 3
MaxCallbacks == 2
MaxErrnos == 2
MaxFds == 3
MaxDels == 2

Procs == {1, 2}

-----------------------------------------------------------------------------
(* Keys are sequences of characters. *)

ClassChars == {"a", "Z", "9", "-", "_"}
Alphabet == ClassChars \cup {"/", " ", "\n"}

RECURSIVE Strings(_)
Strings(n) ==
    IF n = 0 THEN {<<>>}
    ELSE LET shorter == Strings(n - 1)
         IN  shorter \cup {Append(s, ch) : s \in {t \in shorter : Len(t) = n - 1}, ch \in Alphabet}

\* Length of the longest prefix of s made of characters of [-_a-zA-Z0-9].
RECURSIVE ClassRun(_, _)
ClassRun(s, i) ==
    IF i <= Len(s) /\ s[i] \in ClassChars THEN ClassRun(s, i + 1) ELSE i - 1

\* `$` without re.MULTILINE: at the end of the string, or just before a
\* line break that is the last character of the string.
DollarAt(s, i) ==
    \/ i = Len(s)
    \/ i = Len(s) - 1 /\ s[Len(s)] = "\n"

\* re.match(r'^[-_a-zA-Z0-9]+$', string): the greedy run of class characters,
\* given back one character at a time until `$` matches.  TRUE stands for a
\* match object, FALSE for None.
_check_dirname(string) ==
    \E i \in 1..ClassRun(string, 1) : DollarAt(string, i)

-----------------------------------------------------------------------------
(* The arguments the callers use. *)

KeyA == <<"a">>
KeyNL == <<"a", "\n">>
Keys == {KeyA, <<>>, <<"a", "/", "b">>, <<"a", " ", "b">>}
Contents == {"c1", "c2"}
OldContent == "c0"

NoCall == [op |-> "none", key |-> <<>>, content |-> "none"]
NoStore == [key |-> <<>>, content |-> "none"]

\* A directory store/<name>: the inode of the directory (its lock file, once
\* created, is identified with it), whether it holds `lock`, and the content
\* of its `entry` subdirectory ("none": no such subdirectory).
Absent == [ino |-> 0, lock |-> FALSE, entry |-> "none"]

InUse(i) ==
    \/ \E k \in Keys : store[k].ino = i
    \/ \E p \in Procs : dir_fd[p] = i \/ lock_fd[p] = i \/ entry_fd[p] = i

\* An inode number no directory entry and no open descriptor refers to.
FreshIno == CHOOSE i \in 1..(Cardinality(Keys) + 3 * Cardinality(Procs) + 1) : ~InUse(i)

FullyFormed(d) == d.ino # 0 /\ d.lock /\ d.entry # "none"

-----------------------------------------------------------------------------
(* _fcntl_flock(fd, lock_type) with blocking = False, on the description    *)
(* behind lock_fd[p].  Locks belong to the open file description; every     *)
(* os.open makes a new one.                                                 *)

\* The variant of Conflict in which only a write lock stands in the way.
Conflict_WritersOnly(p, lock_type) ==
    \E q \in Procs \ {p} :
        /\ lock_fd[q] = lock_fd[p]
        /\ held[q] = "W"

\* A lock of another description of the same file stands in the way of a
\* request of type lock_type: any lock for a write lock, a write lock for a
\* read lock.
Conflict(p, lock_type) ==
    \E q \in Procs \ {p} :
        /\ lock_fd[q] = lock_fd[p]
        /\ held[q] # "none"
        /\ (lock_type = "W" \/ held[q] = "W")

\* TRUE: fcntl raised BlockingIOError, reported as LockedError.
_fcntl_flock(p, lock_type) ==
    lock_type # "U" /\ Conflict(p, lock_type)

-----------------------------------------------------------------------------
(* Cache.__init__ has run in every process: with directory_fd = None the   *)
(* manager keeps _store_fd = None, otherwise it holds descriptors of store *)
(* and staging.  The root may hold entries published before.               *)

Preloaded(i) == [ino |-> i, lock |-> TRUE, entry |-> OldContent]

\* No string has been given to _check_dirname.
KeyIdle ==
    /\ vkey = <<>>
    /\ verdict = "unchecked"

\* The directory_fd argument: None, or an integer.
NoneFd == [none |-> TRUE, fd |-> 0]
IntFd(i) == [none |-> FALSE, fd |-> i]

\* No constructor call has begun; the class attributes are None (lines
\* 200-201).
NoFds == [store |-> 0, staging |-> 0]

\* No process has begun a constructor call: the part all begin from.
CtorNew ==
    /\ init_pc = [p \in Procs |-> "new"]
    /\ directory_fd = [p \in Procs |-> NoneFd]
    /\ _store_fd = [p \in Procs |-> "None"]
    /\ _staging_fd = [p \in Procs |-> "None"]
    /\ init_result = [p \in Procs |-> "none"]
    /\ opens = [p \in Procs |-> NoFds]
    /\ closes = [p \in Procs |-> NoFds]
    /\ ndel = [p \in Procs |-> 0]

CtorIdle ==
    /\ root = {}
    /\ CtorNew

Fds == 1..MaxFds

NoFlock == [fd |-> 0, lock_type |-> "none", blocking |-> FALSE, outcome |-> "none"]

\* The lock file has no open descriptor and _fcntl_flock has not been called.
FlockIdle ==
    /\ ofd = [d \in Fds |-> "closed"]
    /\ flock_last = NoFlock

NoError == [kind |-> "none", errno |-> 0]

\* No with-statement on suppress_oserror has begun.
SOIdle ==
    /\ so_errnos = <<>>
    /\ so_pc = "enter"
    /\ so_raised = NoError
    /\ so_result = "none"

\* No with-statement on a GuardedCM has begun.
CMIdle ==
    /\ cm_pc = "start"
    /\ cm_stack = <<>>
    /\ cm_nreg = 0
    /\ cm_ran = [i \in 1..MaxCallbacks |-> 0]
    /\ cm_exits = 0
    /\ cm_exc = "none"
    /\ cm_value = "none"
    /\ cm_ret = "none"
    /\ cm_result = "none"

Init ==
    /\ ncalls = [p \in Procs |-> 0]
    /\ mgr \in [Procs -> {"root", "noroot"}]
    /\ \E a \in {Absent, Preloaded(1)} :
          store = [k \in Keys |-> IF k = KeyA THEN a ELSE Absent]
    /\ pc = [p \in Procs |-> "idle"]
    /\ call = [p \in Procs |-> NoCall]
    /\ dir_fd = [p \in Procs |-> 0]
    /\ lock_fd = [p \in Procs |-> 0]
    /\ held = [p \in Procs |-> "none"]
    /\ entry_fd = [p \in Procs |-> 0]
    /\ exc = [p \in Procs |-> "none"]
    /\ result = [p \in Procs |-> "none"]
    /\ handed = [p \in Procs |-> "none"]
    /\ fresh = [p \in Procs |-> NoStore]
    /\ pub = [p \in Procs |-> FALSE]
    /\ maintained = FALSE
    /\ raced = [p \in Procs |-> FALSE]
    /\ started = [k \in Keys |-> store[k] # Absent]
    /\ KeyIdle
    /\ CMIdle
    /\ SOIdle
    /\ CtorIdle
    /\ FlockIdle

-----------------------------------------------------------------------------
(* History.  It is reset when a process begins a call; pub and raced are    *)
(* dropped when the call ends.                                             *)

MaintPcs == {"maint_lock", "maint_delete", "maint_unlock"}

StorePcs == {"store_mkdir", "store_opendir", "store_create_lock"}

Running(q, op, k) == pc[q] # "idle" /\ call[q].op = op /\ call[q].key = k

\* fresh[p] survives only into the call that follows a successful store.
KeepFresh(p) ==
    IF call[p].op = "store" /\ result[p] = "ok" THEN fresh[p] ELSE NoStore

\* The call of p ends with outcome r.
Return(p, r) ==
    /\ pc' = [pc EXCEPT ![p] = "idle"]
    /\ result' = [result EXCEPT ![p] = r]
    /\ exc' = [exc EXCEPT ![p] = "none"]
    /\ pub' = [pub EXCEPT ![p] = FALSE]
    /\ raced' = [raced EXCEPT ![p] = FALSE]

\* The call of p goes on at position l.
Goto(p, l) ==
    /\ pc' = [pc EXCEPT ![p] = l]
    /\ UNCHANGED <<result, pub, raced>>

-----------------------------------------------------------------------------
(* Cache.load(key): a generator-based context manager.  The code up to     *)
(* `yield` runs when the caller enters the `with` block, the rest when the *)
(* block is left.  An exception that leaves the generator is the outcome   *)
(* of the call.                                                            *)

\* The variant of StartLoad that forgets the no-root case.
StartLoad_NoNoneCheck(p, k) ==
    /\ pc[p] = "idle"
    /\ ncalls[p] < MaxCalls
    /\ ncalls' = [ncalls EXCEPT ![p] = @ + 1]
    /\ call' = [call EXCEPT ![p] = [op |-> "load", key |-> k, content |-> "none"]]
    /\ handed' = [handed EXCEPT ![p] = "none"]
    /\ fresh' = [fresh EXCEPT ![p] = KeepFresh(p)]
    /\ IF ~_check_dirname(k)
       THEN Return(p, "InvalidKey")
       ELSE /\ pc' = [pc EXCEPT ![p] = "load_open"]
            /\ result' = [result EXCEPT ![p] = "none"]
            /\ pub' = [pub EXCEPT ![p] = FullyFormed(store[k])]
            /\ raced' = [raced EXCEPT ![p] = \E q \in Procs \ {p} : Running(q, "store", k)]
            /\ UNCHANGED exc
    /\ UNCHANGED <<mgr, store, fdVars, started, maintained, sideVars>>

\* Lines 271-279.  The failed assertion is the InvalidKey outcome.
StartLoad(p, k) ==
    /\ pc[p] = "idle"
    /\ ncalls[p] < MaxCalls
    /\ ncalls' = [ncalls EXCEPT ![p] = @ + 1]
    /\ call' = [call EXCEPT ![p] = [op |-> "load", key |-> k, content |-> "none"]]
    /\ handed' = [handed EXCEPT ![p] = "none"]
    /\ fresh' = [fresh EXCEPT ![p] = KeepFresh(p)]
    /\ IF ~_check_dirname(k)
       THEN Return(p, "InvalidKey")
       ELSE IF mgr[p] = "noroot"
       THEN Return(p, "UnknownKey")
       ELSE /\ pc' = [pc EXCEPT ![p] = "load_open"]
            /\ result' = [result EXCEPT ![p] = "none"]
            /\ pub' = [pub EXCEPT ![p] = FullyFormed(store[k])]
            /\ raced' = [raced EXCEPT ![p] = \E q \in Procs \ {p} : Running(q, "store", k)]
            /\ UNCHANGED exc
    /\ UNCHANGED <<mgr, store, fdVars, started, maintained, sideVars>>

\* The variant of LoadOpen without the `except FileNotFoundError` clause.
LoadOpen_NoExcept(p) ==
    /\ pc[p] = "load_open"
    /\ IF store[call[p].key].lock
       THEN /\ lock_fd' = [lock_fd EXCEPT ![p] = store[call[p].key].ino]
            /\ Goto(p, "load_lock")
            /\ UNCHANGED exc
       ELSE /\ Return(p, "IOError")
            /\ UNCHANGED lock_fd
    /\ UNCHANGED <<ncalls, mgr, store, call, dir_fd, held, entry_fd, histVars, maintained, sideVars>>

\* Lines 288-292: os.open(<key>/lock).  When the path does not exist the
\* `finally` block finds both descriptors None and UnknownKeyError leaves.
LoadOpen(p) ==
    /\ pc[p] = "load_open"
    /\ IF store[call[p].key].lock
       THEN /\ lock_fd' = [lock_fd EXCEPT ![p] = store[call[p].key].ino]
            /\ Goto(p, "load_lock")
            /\ UNCHANGED exc
       ELSE /\ Return(p, "UnknownKey")
            /\ UNCHANGED lock_fd
    /\ UNCHANGED <<ncalls, mgr, store, call, dir_fd, held, entry_fd, histVars, maintained, sideVars>>

\* The variant of LoadLock that goes on without taking the read lock.
LoadLock_NoLock(p) ==
    /\ pc[p] = "load_lock"
    /\ Goto(p, "load_entry")
    /\ UNCHANGED <<ncalls, mgr, store, call, fdVars, exc, histVars, maintained, sideVars>>

\* The variant of LoadLock with blocking = True: the call waits until no
\* lock stands in the way.
LoadLock_Blocking(p) ==
    /\ pc[p] = "load_lock"
    /\ ~Conflict(p, "R")
    /\ held' = [held EXCEPT ![p] = "R"]
    /\ Goto(p, "load_entry")
    /\ UNCHANGED <<ncalls, mgr, store, call, dir_fd, lock_fd, entry_fd, exc, histVars, maintained, sideVars>>

\* The variant of LoadLock without the `except LockedError` clause.
LoadLock_NoExcept(p) ==
    /\ pc[p] = "load_lock"
    /\ IF _fcntl_flock(p, "R")
       THEN /\ exc' = [exc EXCEPT ![p] = "Locked"]
            /\ Goto(p, "load_unlock")
            /\ UNCHANGED held
       ELSE /\ held' = [held EXCEPT ![p] = "R"]
            /\ Goto(p, "load_entry")
            /\ UNCHANGED exc
    /\ UNCHANGED <<ncalls, mgr, store, call, dir_fd, lock_fd, entry_fd, histVars, maintained, sideVars>>

\* Lines 301-304: _fcntl_flock(lock_fd, F_RDLCK); LockedError becomes
\* UnknownKeyError, which passes through `finally`.
LoadLock(p) ==
    /\ pc[p] = "load_lock"
    /\ IF _fcntl_flock(p, "R")
       THEN /\ exc' = [exc EXCEPT ![p] = "UnknownKey"]
            /\ Goto(p, "load_unlock")
            /\ UNCHANGED held
       ELSE /\ held' = [held EXCEPT ![p] = "R"]
            /\ Goto(p, "load_entry")
            /\ UNCHANGED exc
    /\ UNCHANGED <<ncalls, mgr, store, call, dir_fd, lock_fd, entry_fd, histVars, maintained, sideVars>>

\* Lines 306-308: os.open(<key>/entry) by path, then `yield entry_fd`.
\* FileNotFoundError is not caught: it passes through `finally`.
LoadEntry(p) ==
    /\ pc[p] = "load_entry"
    /\ IF store[call[p].key].entry # "none"
       THEN /\ entry_fd' = [entry_fd EXCEPT ![p] = store[call[p].key].ino]
            /\ handed' = [handed EXCEPT ![p] = store[call[p].key].entry]
            /\ Goto(p, "load_yield")
            /\ UNCHANGED exc
       ELSE /\ exc' = [exc EXCEPT ![p] = "IOError"]
            /\ Goto(p, "load_unlock")
            /\ UNCHANGED <<entry_fd, handed>>
    /\ UNCHANGED <<ncalls, mgr, store, call, dir_fd, lock_fd, held, fresh, started, maintained, sideVars>>

\* Line 308: the caller's `with` block, which ends normally or raises.
LoadBody(p) ==
    /\ pc[p] = "load_yield"
    /\ \E e \in {"none", "BodyError"} : exc' = [exc EXCEPT ![p] = e]
    /\ Goto(p, "load_close_entry")
    /\ UNCHANGED <<ncalls, mgr, store, call, fdVars, histVars, maintained, sideVars>>

\* The variant of LoadCloseEntry that gives up the lock and keeps the entry
\* descriptor.
LoadCloseEntry_UnlockFirst(p) ==
    /\ pc[p] = "load_close_entry"
    /\ held' = [held EXCEPT ![p] = "none"]
    /\ Goto(p, "load_unlock")
    /\ UNCHANGED <<ncalls, mgr, store, call, dir_fd, lock_fd, entry_fd, exc, histVars, maintained, sideVars>>

\* Lines 310-312.
LoadCloseEntry(p) ==
    /\ pc[p] = "load_close_entry"
    /\ entry_fd' = [entry_fd EXCEPT ![p] = 0]
    /\ Goto(p, "load_unlock")
    /\ UNCHANGED <<ncalls, mgr, store, call, dir_fd, lock_fd, held, exc, histVars, maintained, sideVars>>

\* The variant of LoadUnlock with locks that belong to the file: the unlock
\* takes away the locks of every description of the lock file.
LoadUnlock_WholeFile(p) ==
    /\ pc[p] = "load_unlock"
    /\ held' = [q \in Procs |-> IF lock_fd[q] = lock_fd[p] THEN "none" ELSE held[q]]
    /\ Goto(p, "load_close_lock")
    /\ UNCHANGED <<ncalls, mgr, store, call, dir_fd, lock_fd, entry_fd, exc, histVars, maintained, sideVars>>

\* Line 321: _fcntl_flock(lock_fd, F_UNLCK).
LoadUnlock(p) ==
    /\ pc[p] = "load_unlock"
    /\ ~_fcntl_flock(p, "U")
    /\ held' = [held EXCEPT ![p] = "none"]
    /\ Goto(p, "load_close_lock")
    /\ UNCHANGED <<ncalls, mgr, store, call, dir_fd, lock_fd, entry_fd, exc, histVars, maintained, sideVars>>

\* The variant of LoadCloseLock that closes the lock file only when the
\* caller's block has ended normally.
LoadCloseLock_KeepOnError(p) ==
    /\ pc[p] = "load_close_lock"
    /\ lock_fd' = [lock_fd EXCEPT ![p] = IF exc[p] = "none" THEN 0 ELSE @]
    /\ Return(p, IF exc[p] # "none" THEN exc[p] ELSE "UnknownKey")
    /\ UNCHANGED <<ncalls, mgr, store, call, dir_fd, held, entry_fd, histVars, maintained, sideVars>>

\* Lines 322-325: os.close(lock_fd); a pending exception leaves the
\* generator, otherwise line 325 raises UnknownKeyError.
LoadCloseLock(p) ==
    /\ pc[p] = "load_close_lock"
    /\ lock_fd' = [lock_fd EXCEPT ![p] = 0]
    /\ Return(p, IF exc[p] # "none" THEN exc[p] ELSE "UnknownKey")
    /\ UNCHANGED <<ncalls, mgr, store, call, dir_fd, held, entry_fd, histVars, maintained, sideVars>>

-----------------------------------------------------------------------------
(* Cache.store(key, directory).  The `directory` argument is never read.   *)

\* The variant of StartStore that creates the directory before the checks.
StartStore_CheckLate(p, k, c) ==
    /\ pc[p] = "idle"
    /\ ncalls[p] < MaxCalls
    /\ ncalls' = [ncalls EXCEPT ![p] = @ + 1]
    /\ call' = [call EXCEPT ![p] = [op |-> "store", key |-> k, content |-> c]]
    /\ handed' = [handed EXCEPT ![p] = "none"]
    /\ fresh' = [fresh EXCEPT ![p] = NoStore]
    /\ store' = [store EXCEPT ![k] =
                    IF @ = Absent THEN [ino |-> FreshIno, lock |-> FALSE, entry |-> "none"] ELSE @]
    /\ Return(p, IF ~_check_dirname(k) THEN "InvalidKey" ELSE "ok")
    /\ UNCHANGED <<mgr, fdVars, started, maintained, sideVars>>

\* Lines 331-334.  The failed assertion is the InvalidKey outcome; without
\* a root the call returns at once.
StartStore(p, k, c) ==
    /\ pc[p] = "idle"
    /\ ncalls[p] < MaxCalls
    /\ ncalls' = [ncalls EXCEPT ![p] = @ + 1]
    /\ call' = [call EXCEPT ![p] = [op |-> "store", key |-> k, content |-> c]]
    /\ handed' = [handed EXCEPT ![p] = "none"]
    /\ IF ~_check_dirname(k)
       THEN /\ Return(p, "InvalidKey")
            /\ fresh' = [fresh EXCEPT ![p] = NoStore]
            /\ UNCHANGED started
       ELSE IF mgr[p] = "noroot"
       THEN /\ Return(p, "ok")
            /\ fresh' = [fresh EXCEPT ![p] = [key |-> k, content |-> c]]
            /\ UNCHANGED started
       ELSE /\ pc' = [pc EXCEPT ![p] = "store_mkdir"]
            /\ result' = [result EXCEPT ![p] = "none"]
            /\ pub' = [pub EXCEPT ![p] = FullyFormed(store[k])]
            /\ raced' = [q \in Procs |-> q # p /\ (raced[q] \/ Running(q, "load", k))]
            /\ fresh' = [fresh EXCEPT ![p] = NoStore]
            /\ started' = [started EXCEPT ![k] = TRUE]
            /\ UNCHANGED exc
    /\ UNCHANGED <<mgr, store, fdVars, maintained, sideVars>>

\* The variant of StoreMkdir that replaces a directory it finds in its way.
StoreMkdir_Replace(p) ==
    /\ pc[p] = "store_mkdir"
    /\ IF store[call[p].key] # Absent
       THEN /\ Return(p, "DuplicateKey")
            /\ store' = [store EXCEPT ![call[p].key] =
                            [ino |-> FreshIno, lock |-> FALSE, entry |-> "none"]]
       ELSE /\ store' = [store EXCEPT ![call[p].key] =
                            [ino |-> FreshIno, lock |-> FALSE, entry |-> "none"]]
            /\ Goto(p, "store_opendir")
            /\ UNCHANGED exc
    /\ UNCHANGED <<ncalls, mgr, call, fdVars, histVars, maintained, sideVars>>

\* Lines 337-340: os.mkdir(key, dir_fd = _store_fd), straight under store.
StoreMkdir(p) ==
    /\ pc[p] = "store_mkdir"
    /\ IF store[call[p].key] # Absent
       THEN /\ Return(p, "DuplicateKey")
            /\ UNCHANGED store
       ELSE /\ store' = [store EXCEPT ![call[p].key] =
                            [ino |-> FreshIno, lock |-> FALSE, entry |-> "none"]]
            /\ Goto(p, "store_opendir")
            /\ UNCHANGED exc
    /\ UNCHANGED <<ncalls, mgr, call, fdVars, histVars, maintained, sideVars>>

\* Lines 342-343: os.open(key, O_PATH | O_DIRECTORY, dir_fd = _store_fd).
StoreOpenDir(p) ==
    /\ pc[p] = "store_opendir"
    /\ IF store[call[p].key] # Absent
       THEN /\ dir_fd' = [dir_fd EXCEPT ![p] = store[call[p].key].ino]
            /\ Goto(p, "store_create_lock")
            /\ UNCHANGED exc
       ELSE /\ Return(p, "IOError")
            /\ UNCHANGED dir_fd
    /\ UNCHANGED <<ncalls, mgr, store, call, lock_fd, held, entry_fd, histVars, maintained, sideVars>>

\* Lines 345-348: os.open("lock", O_CREAT | O_EXCL, dir_fd = dir_fd), an
\* empty `finally`, and the end of the function: the call returns None.
\* No descriptor is closed: dir_fd[p] stays open (and with it the
\* descriptor of the new lock file, which holds no lock).
StoreCreateLock(p) ==
    /\ pc[p] = "store_create_lock"
    /\ LET k == call[p].key
       IN  IF store[k].ino = dir_fd[p] /\ ~store[k].lock
           THEN /\ store' = [store EXCEPT ![k].lock = TRUE]
                /\ Return(p, "ok")
                /\ fresh' = [fresh EXCEPT ![p] = [key |-> k, content |-> call[p].content]]
           ELSE /\ Return(p, "IOError")
                /\ UNCHANGED <<store, fresh>>
    /\ UNCHANGED <<ncalls, mgr, call, fdVars, handed, started, maintained, sideVars>>

\* Lines 342-343 and 345-346: os.open raises an OSError of the system (too
\* many open files, no space left, ...).  Nothing catches it and the
\* `finally` block is empty: the directory made at line 338 stays.
StoreOpenDirFails(p) ==
    /\ pc[p] = "store_opendir"
    /\ Return(p, "OSError")
    /\ UNCHANGED <<ncalls, mgr, store, call, fdVars, histVars, maintained, sideVars>>

StoreCreateLockFails(p) ==
    /\ pc[p] = "store_create_lock"
    /\ Return(p, "OSError")
    /\ UNCHANGED <<ncalls, mgr, store, call, fdVars, histVars, maintained, sideVars>>

-----------------------------------------------------------------------------
(* Maintenance, one candidate at a time: open the candidate's lock file,   *)
(* try a write lock without waiting, skip the entry when that fails,       *)
(* otherwise delete the entry's directory tree and release the lock.       *)

StartMaint(p, k) ==
    /\ pc[p] = "idle"
    /\ ncalls[p] < MaxCalls
    /\ ncalls' = [ncalls EXCEPT ![p] = @ + 1]
    /\ mgr[p] = "root"
    /\ store[k].lock
    /\ call' = [call EXCEPT ![p] = [op |-> "maint", key |-> k, content |-> "none"]]
    /\ lock_fd' = [lock_fd EXCEPT ![p] = store[k].ino]
    /\ pc' = [pc EXCEPT ![p] = "maint_lock"]
    /\ result' = [result EXCEPT ![p] = "none"]
    /\ handed' = [handed EXCEPT ![p] = "none"]
    /\ fresh' = [fresh EXCEPT ![p] = NoStore]
    /\ maintained' = TRUE
    /\ UNCHANGED <<mgr, store, dir_fd, held, entry_fd, exc, pub, raced, started, sideVars>>

\* The variant of MaintLock that waits for the write lock.
MaintLock_Blocking(p) ==
    /\ pc[p] = "maint_lock"
    /\ ~Conflict(p, "W")
    /\ held' = [held EXCEPT ![p] = "W"]
    /\ Goto(p, "maint_delete")
    /\ UNCHANGED <<ncalls, mgr, store, call, dir_fd, lock_fd, entry_fd, exc, histVars, maintained, sideVars>>

MaintLock(p) ==
    /\ pc[p] = "maint_lock"
    /\ IF _fcntl_flock(p, "W")
       THEN /\ lock_fd' = [lock_fd EXCEPT ![p] = 0]
            /\ Return(p, "skipped")
            /\ UNCHANGED held
       ELSE /\ held' = [held EXCEPT ![p] = "W"]
            /\ Goto(p, "maint_delete")
            /\ UNCHANGED <<lock_fd, exc>>
    /\ UNCHANGED <<ncalls, mgr, store, call, dir_fd, entry_fd, histVars, maintained, sideVars>>

MaintDelete(p) ==
    /\ pc[p] = "maint_delete"
    /\ store' = [store EXCEPT ![call[p].key] = Absent]
    /\ Goto(p, "maint_unlock")
    /\ UNCHANGED <<ncalls, mgr, call, fdVars, exc, histVars, maintained, sideVars>>

MaintUnlock(p) ==
    /\ pc[p] = "maint_unlock"
    /\ held' = [held EXCEPT ![p] = "none"]
    /\ lock_fd' = [lock_fd EXCEPT ![p] = 0]
    /\ Return(p, "evicted")
    /\ UNCHANGED <<ncalls, mgr, store, call, dir_fd, entry_fd, histVars, maintained, sideVars>>

-----------------------------------------------------------------------------
(* A process is killed in the middle of a call: the kernel closes its      *)
(* descriptors, which releases the locks of their descriptions.            *)

Interrupt(p) ==
    /\ pc[p] # "idle"
    /\ Return(p, "killed")
    /\ dir_fd' = [dir_fd EXCEPT ![p] = 0]
    /\ lock_fd' = [lock_fd EXCEPT ![p] = 0]
    /\ entry_fd' = [entry_fd EXCEPT ![p] = 0]
    /\ held' = [held EXCEPT ![p] = "none"]
    /\ UNCHANGED <<ncalls, mgr, store, call, histVars, maintained, sideVars>>

-----------------------------------------------------------------------------

Next ==
    \E p \in Procs :
        \/ \E k \in Keys : StartLoad(p, k)
        \/ LoadOpen(p)
        \/ LoadLock(p)
        \/ LoadEntry(p)
        \/ LoadBody(p)
        \/ LoadCloseEntry(p)
        \/ LoadUnlock(p)
        \/ LoadCloseLock(p)
        \/ \E k \in Keys, c \in Contents : StartStore(p, k, c)
        \/ StoreMkdir(p)
        \/ StoreOpenDir(p)
        \/ StoreCreateLock(p)
        \/ StoreOpenDirFails(p)
        \/ StoreCreateLockFails(p)
        \/ \E k \in Keys : StartMaint(p, k)
        \/ MaintLock(p)
        \/ MaintDelete(p)
        \/ MaintUnlock(p)
        \/ Interrupt(p)

Spec == Init /\ [][Next]_vars

\* The statements of load and store that the module itself runs, without
\* the caller's with-block.  A process that is in a call and is not killed
\* goes on running them.
CallCode(p) ==
    \/ LoadOpen(p)
    \/ LoadLock(p)
    \/ LoadEntry(p)
    \/ LoadCloseEntry(p)
    \/ LoadUnlock(p)
    \/ LoadCloseLock(p)
    \/ StoreMkdir(p)
    \/ StoreOpenDir(p)
    \/ StoreCreateLock(p)

\* No fairness for the caller's with-block, for maintenance or for the
\* beginning of calls: a handle, and a lock, may be held for ever.
SpecLive == Spec /\ \A p \in Procs : WF_vars(CallCode(p))

\* The steps of maintenance on one candidate.
MaintCode(p) ==
    \/ MaintLock(p)
    \/ MaintDelete(p)
    \/ MaintUnlock(p)

\* A maintenance pass that is not killed goes on running its steps; nothing
\* is assumed of loads, stores and their callers, who may keep an entry
\* locked for ever.
SpecMaint == Spec /\ \A p \in Procs : WF_vars(MaintCode(p))

-----------------------------------------------------------------------------
(* The key check on its own: every string up to MaxLen over Alphabet.      *)

\* No manager has a root and no call has been made.
CacheIdle ==
    /\ ncalls = [p \in Procs |-> 0]
    /\ mgr = [p \in Procs |-> "noroot"]
    /\ store = [k \in Keys |-> Absent]
    /\ pc = [p \in Procs |-> "idle"]
    /\ call = [p \in Procs |-> NoCall]
    /\ dir_fd = [p \in Procs |-> 0]
    /\ lock_fd = [p \in Procs |-> 0]
    /\ held = [p \in Procs |-> "none"]
    /\ entry_fd = [p \in Procs |-> 0]
    /\ exc = [p \in Procs |-> "none"]
    /\ result = [p \in Procs |-> "none"]
    /\ handed = [p \in Procs |-> "none"]
    /\ fresh = [p \in Procs |-> NoStore]
    /\ pub = [p \in Procs |-> FALSE]
    /\ maintained = FALSE
    /\ raced = [p \in Procs |-> FALSE]
    /\ started = [k \in Keys |-> FALSE]

InitKey ==
    /\ CacheIdle
    /\ CMIdle
    /\ SOIdle
    /\ CtorIdle
    /\ FlockIdle
    /\ vkey \in Strings(MaxLen)
    /\ verdict = "unchecked"

CheckDirname ==
    /\ verdict = "unchecked"
    /\ verdict' = IF _check_dirname(vkey) THEN "match" ELSE "None"
    /\ UNCHANGED <<vkey, cacheVars, cmVars, soVars, ctorVars, flockVars>>

NextKey == CheckDirname

SpecKey == InitKey /\ [][NextKey]_vars

-----------------------------------------------------------------------------
(* ctx.GuardedCM: one `with cm as v: body` statement on a subclass whose   *)
(* guarded_enter() registers callbacks on guarded_stack and then returns   *)
(* or raises, and whose guarded_exit() returns some value.                 *)

\* Line 62: __enter__ makes a new ExitStack and calls guarded_enter().
CMEnter ==
    /\ cm_pc = "start"
    /\ cm_stack' = <<>>
    /\ cm_pc' = "guarded_enter"
    /\ UNCHANGED <<cm_nreg, cm_ran, cm_exits, cm_exc, cm_value, cm_ret, cm_result>>
    /\ UNCHANGED <<cacheVars, keyVars, soVars, ctorVars, flockVars>>

\* Lines 57-59: guarded_enter() does self.guarded_stack.callback(cb).
CMRegister ==
    /\ cm_pc = "guarded_enter"
    /\ cm_nreg < MaxCallbacks
    /\ cm_nreg' = cm_nreg + 1
    /\ cm_stack' = Append(cm_stack, cm_nreg + 1)
    /\ UNCHANGED <<cm_pc, cm_ran, cm_exits, cm_exc, cm_value, cm_ret, cm_result>>
    /\ UNCHANGED <<cacheVars, keyVars, soVars, ctorVars, flockVars>>

\* Line 64: guarded_enter() returns, __enter__ returns its value and the
\* body of the with-statement begins.
CMEnterReturns ==
    /\ cm_pc = "guarded_enter"
    /\ \E v \in {"None", "71"} : cm_value' = v
    /\ cm_pc' = "body"
    /\ UNCHANGED <<cm_stack, cm_nreg, cm_ran, cm_exits, cm_exc, cm_ret, cm_result>>
    /\ UNCHANGED <<cacheVars, keyVars, soVars, ctorVars, flockVars>>

\* The variant of CMEnterRaises without the except clause of __enter__: the
\* exception of guarded_enter() leaves __enter__ at once.
CMEnterRaises_NoExcept ==
    /\ cm_pc = "guarded_enter"
    /\ cm_exc' = "EnterError"
    /\ cm_result' = "EnterError"
    /\ cm_pc' = "done"
    /\ UNCHANGED <<cm_stack, cm_nreg, cm_ran, cm_exits, cm_value, cm_ret>>
    /\ UNCHANGED <<cacheVars, keyVars, soVars, ctorVars, flockVars>>

\* Lines 65-67: guarded_enter() raises; the except clause enters the stack
\* and calls guarded_exit().
CMEnterRaises ==
    /\ cm_pc = "guarded_enter"
    /\ cm_exc' = "EnterError"
    /\ cm_pc' = "guarded_exit"
    /\ UNCHANGED <<cm_stack, cm_nreg, cm_ran, cm_exits, cm_value, cm_ret, cm_result>>
    /\ UNCHANGED <<cacheVars, keyVars, soVars, ctorVars, flockVars>>

\* The body ends normally or raises; the with-statement calls __exit__
\* (lines 70-71), which enters the stack and calls guarded_exit().
CMBody ==
    /\ cm_pc = "body"
    /\ \E e \in {"none", "BodyError"} : cm_exc' = e
    /\ cm_pc' = "guarded_exit"
    /\ UNCHANGED <<cm_stack, cm_nreg, cm_ran, cm_exits, cm_value, cm_ret, cm_result>>
    /\ UNCHANGED <<cacheVars, keyVars, soVars, ctorVars, flockVars>>

\* Lines 67 and 72: self.guarded_exit() runs and returns a value.
CMGuardedExit ==
    /\ cm_pc = "guarded_exit"
    /\ cm_exits' = cm_exits + 1
    /\ \E r \in {"None", "True", "False"} : cm_ret' = r
    /\ cm_pc' = "unwind"
    /\ UNCHANGED <<cm_stack, cm_nreg, cm_ran, cm_exc, cm_value, cm_result>>
    /\ UNCHANGED <<cacheVars, keyVars, soVars, ctorVars, flockVars>>

\* Lines 66 and 71: leaving `with self._guarded_exit_stack` runs the
\* registered callbacks, the last one first.
CMUnwind ==
    /\ cm_pc = "unwind"
    /\ cm_stack # <<>>
    /\ cm_ran' = [cm_ran EXCEPT ![cm_stack[Len(cm_stack)]] = @ + 1]
    /\ cm_stack' = SubSeq(cm_stack, 1, Len(cm_stack) - 1)
    /\ UNCHANGED <<cm_pc, cm_nreg, cm_exits, cm_exc, cm_value, cm_ret, cm_result>>
    /\ UNCHANGED <<cacheVars, keyVars, soVars, ctorVars, flockVars>>

\* The variant of CMFinish in which __exit__ returns what guarded_exit()
\* returned.
CMFinish_ReturnsExit ==
    /\ cm_pc = "unwind"
    /\ cm_stack = <<>>
    /\ cm_result' = IF cm_exc = "none" \/ (cm_exc = "BodyError" /\ cm_ret = "True")
                     THEN "ok" ELSE cm_exc
    /\ cm_pc' = "done"
    /\ UNCHANGED <<cm_stack, cm_nreg, cm_ran, cm_exits, cm_exc, cm_value, cm_ret>>
    /\ UNCHANGED <<cacheVars, keyVars, soVars, ctorVars, flockVars>>

\* Line 68: `raise` sends the exception of guarded_enter() on.  Line 72:
\* __exit__ ends without a return statement, so the with-statement sends
\* the exception of the body on.
CMFinish ==
    /\ cm_pc = "unwind"
    /\ cm_stack = <<>>
    /\ cm_result' = IF cm_exc = "none" THEN "ok" ELSE cm_exc
    /\ cm_pc' = "done"
    /\ UNCHANGED <<cm_stack, cm_nreg, cm_ran, cm_exits, cm_exc, cm_value, cm_ret>>
    /\ UNCHANGED <<cacheVars, keyVars, soVars, ctorVars, flockVars>>

InitCM ==
    /\ CacheIdle
    /\ KeyIdle
    /\ CMIdle
    /\ SOIdle
    /\ CtorIdle
    /\ FlockIdle

NextCM ==
    \/ CMEnter
    \/ CMRegister
    \/ CMEnterReturns
    \/ CMEnterRaises
    \/ CMBody
    \/ CMGuardedExit
    \/ CMUnwind
    \/ CMFinish

SpecCM == InitCM /\ [][NextCM]_vars

-----------------------------------------------------------------------------
(* ctx.suppress_oserror: one `with suppress_oserror(e1, ..., en): body`.    *)

\* EPERM, ENOENT, ESRCH.
Errnos == {1, 2, 3}

RECURSIVE Tuples(_)
Tuples(n) ==
    IF n = 0 THEN {<<>>}
    ELSE LET shorter == Tuples(n - 1)
         IN  shorter \cup {Append(t, e) : t \in {u \in shorter : Len(u) = n - 1}, e \in Errnos}

\* What a body can raise: nothing, an OSError with an error number or with
\* none (errno is None, written 0), or an exception that is no OSError.
Raisable ==
    {NoError, [kind |-> "Other", errno |-> 0]}
        \cup {[kind |-> "OSError", errno |-> e] : e \in Errnos \cup {0}}

\* The variant of InTuple that looks at the first element only.
InTuple_FirstOnly(x, t) == Len(t) >= 1 /\ t[1] = x

\* `x in errnos` on a tuple.
InTuple(x, t) == \E i \in 1..Len(t) : t[i] = x

\* Lines 31-32: the generator runs to `yield`, and the body runs.
SOBody ==
    /\ so_pc = "enter"
    /\ \E r \in Raisable : so_raised' = r
    /\ so_pc' = "exit"
    /\ UNCHANGED <<so_errnos, so_result>>
    /\ UNCHANGED <<cacheVars, keyVars, cmVars, ctorVars, flockVars>>

\* Lines 33-35: an OSError is caught and raised again unless its errno is in
\* errnos; any other exception is not caught; a generator that ends without
\* an exception suppresses the one of the body.
SOExit ==
    /\ so_pc = "exit"
    /\ so_result' =
          IF so_raised.kind = "none" THEN "ok"
          ELSE IF so_raised.kind # "OSError" THEN so_raised.kind
          ELSE IF ~InTuple(so_raised.errno, so_errnos) THEN "OSError"
          ELSE "suppressed"
    /\ so_pc' = "done"
    /\ UNCHANGED <<so_errnos, so_raised>>
    /\ UNCHANGED <<cacheVars, keyVars, cmVars, ctorVars, flockVars>>

InitSO ==
    /\ CacheIdle
    /\ KeyIdle
    /\ CMIdle
    /\ CtorIdle
    /\ FlockIdle
    /\ so_errnos \in Tuples(MaxErrnos)
    /\ so_pc = "enter"
    /\ so_raised = NoError
    /\ so_result = "none"

NextSO ==
    \/ SOBody
    \/ SOExit

SpecSO == InitSO /\ [][NextSO]_vars

-----------------------------------------------------------------------------
(* Cache.__init__(directory_fd) with the default names "store" and         *)
(* "staging", run by processes that have the same root directory open.     *)

\* None, a negative number, and the descriptor of the open root directory.
DirectoryFds == {NoneFd, IntFd(-1), IntFd(3)}

\* p leaves the constructor with outcome r.
CtorReturn(p, r) ==
    /\ init_pc' = [init_pc EXCEPT ![p] = "done"]
    /\ init_result' = [init_result EXCEPT ![p] = r]

\* The variant of CtorCheck that makes the store directory before it looks
\* at the sign of directory_fd.
CtorCheck_AssertLate(p, d) ==
    /\ init_pc[p] = "new"
    /\ directory_fd' = [directory_fd EXCEPT ![p] = d]
    /\ IF d.none
       THEN /\ CtorReturn(p, "ok")
            /\ UNCHANGED root
       ELSE /\ root' = root \cup {"store"}
            /\ IF d.fd >= 0
               THEN init_pc' = [init_pc EXCEPT ![p] = "mkdir_staging"] /\ UNCHANGED init_result
               ELSE CtorReturn(p, "AssertionError")
    /\ UNCHANGED <<_store_fd, _staging_fd, opens, closes, ndel>>
    /\ UNCHANGED <<cacheVars, keyVars, cmVars, soVars, flockVars>>

\* Lines 226-237: the assertion on directory_fd (the default names pass
\* the assertions of lines 227-228), then the no-op manager for None.
CtorCheck(p, d) ==
    /\ init_pc[p] = "new"
    /\ directory_fd' = [directory_fd EXCEPT ![p] = d]
    /\ IF ~(d.none \/ d.fd >= 0)
       THEN CtorReturn(p, "AssertionError") /\ UNCHANGED <<_store_fd, _staging_fd>>
       ELSE IF d.none
       THEN /\ _store_fd' = [_store_fd EXCEPT ![p] = "None"]
            /\ _staging_fd' = [_staging_fd EXCEPT ![p] = "None"]
            /\ CtorReturn(p, "ok")
       ELSE /\ init_pc' = [init_pc EXCEPT ![p] = "mkdir_store"]
            /\ UNCHANGED <<init_result, _store_fd, _staging_fd>>
    /\ UNCHANGED <<root, opens, closes, ndel>>
    /\ UNCHANGED <<cacheVars, keyVars, cmVars, soVars, flockVars>>

\* os.mkdir(name, dir_fd = directory_fd): creates the directory, empty, or
\* raises FileExistsError and leaves what is there.
MkdirRaises(name) == name \in root

Mkdir(name) == IF MkdirRaises(name) THEN root ELSE root \cup {name}

\* The variant of CtorMkdirStore without the except clause.
CtorMkdirStore_NoExcept(p) ==
    /\ init_pc[p] = "mkdir_store"
    /\ root' = Mkdir("store")
    /\ IF MkdirRaises("store")
       THEN CtorReturn(p, "FileExistsError")
       ELSE /\ init_pc' = [init_pc EXCEPT ![p] = "mkdir_staging"]
            /\ UNCHANGED init_result
    /\ UNCHANGED <<directory_fd, _store_fd, _staging_fd, opens, closes, ndel>>
    /\ UNCHANGED <<cacheVars, keyVars, cmVars, soVars, flockVars>>

\* Lines 239-242: os.mkdir(store_name); FileExistsError is passed over.
CtorMkdirStore(p) ==
    /\ init_pc[p] = "mkdir_store"
    /\ root' = Mkdir("store")
    /\ init_pc' = [init_pc EXCEPT ![p] = "mkdir_staging"]
    /\ UNCHANGED <<directory_fd, _store_fd, _staging_fd, init_result, opens, closes, ndel>>
    /\ UNCHANGED <<cacheVars, keyVars, cmVars, soVars, flockVars>>

\* Lines 244-247: os.mkdir(staging_name); FileExistsError is passed over.
CtorMkdirStaging(p) ==
    /\ init_pc[p] = "mkdir_staging"
    /\ root' = Mkdir("staging")
    /\ init_pc' = [init_pc EXCEPT ![p] = "open_store"]
    /\ UNCHANGED <<directory_fd, _store_fd, _staging_fd, init_result, opens, closes, ndel>>
    /\ UNCHANGED <<cacheVars, keyVars, cmVars, soVars, flockVars>>

\* Lines 249-250: self._store_fd = os.open(store_name, ...).
CtorOpenStore(p) ==
    /\ init_pc[p] = "open_store"
    /\ "store" \in root
    /\ _store_fd' = [_store_fd EXCEPT ![p] = "store"]
    /\ opens' = [opens EXCEPT ![p].store = @ + 1]
    /\ init_pc' = [init_pc EXCEPT ![p] = "open_staging"]
    /\ UNCHANGED <<root, directory_fd, _staging_fd, init_result, closes, ndel>>
    /\ UNCHANGED <<cacheVars, keyVars, cmVars, soVars, flockVars>>

\* Line 251: self._staging_fd = os.open(staging_name, ...).
CtorOpenStaging(p) ==
    /\ init_pc[p] = "open_staging"
    /\ "staging" \in root
    /\ _staging_fd' = [_staging_fd EXCEPT ![p] = "staging"]
    /\ opens' = [opens EXCEPT ![p].staging = @ + 1]
    /\ CtorReturn(p, "ok")
    /\ UNCHANGED <<root, directory_fd, _store_fd, closes, ndel>>
    /\ UNCHANGED <<cacheVars, keyVars, cmVars, soVars, flockVars>>

\* Line 250 or line 251: os.open raises an OSError of the system (too many
\* open files, ...), which leaves __init__; what was assigned stays.
CtorOpenFails(p) ==
    /\ init_pc[p] \in {"open_store", "open_staging"}
    /\ CtorReturn(p, "OSError")
    /\ UNCHANGED <<root, directory_fd, _store_fd, _staging_fd, opens, closes, ndel>>
    /\ UNCHANGED <<cacheVars, keyVars, cmVars, soVars, flockVars>>

\* What __del__ adds to the os.close calls of process p.
Closed(p) ==
    [store |-> closes[p].store + (IF _store_fd[p] # "None" THEN 1 ELSE 0),
     staging |-> closes[p].staging + (IF _staging_fd[p] # "None" THEN 1 ELSE 0)]

\* The variant of Del that does not set the attributes to None.
Del_NoReset(p) ==
    /\ init_pc[p] = "done"
    /\ ndel[p] < MaxDels
    /\ ndel' = [ndel EXCEPT ![p] = @ + 1]
    /\ closes' = [closes EXCEPT ![p] = Closed(p)]
    /\ UNCHANGED <<root, init_pc, directory_fd, _store_fd, _staging_fd, init_result, opens>>
    /\ UNCHANGED <<cacheVars, keyVars, cmVars, soVars, flockVars>>

\* Lines 253-259: __del__, run when the manager is dropped (also one whose
\* __init__ raised), and possibly again by hand.
Del(p) ==
    /\ init_pc[p] = "done"
    /\ ndel[p] < MaxDels
    /\ ndel' = [ndel EXCEPT ![p] = @ + 1]
    /\ closes' = [closes EXCEPT ![p] = Closed(p)]
    /\ _staging_fd' = [_staging_fd EXCEPT ![p] = "None"]
    /\ _store_fd' = [_store_fd EXCEPT ![p] = "None"]
    /\ UNCHANGED <<root, init_pc, directory_fd, init_result, opens>>
    /\ UNCHANGED <<cacheVars, keyVars, cmVars, soVars, flockVars>>

\* The root is empty, or holds store (with or without a published entry a)
\* or staging from an earlier manager.
InitCtor ==
    /\ CacheIdle
    /\ KeyIdle
    /\ CMIdle
    /\ SOIdle
    /\ FlockIdle
    /\ root \in {r \in SUBSET {"store", "staging", "store/a"} : "store/a" \in r => "store" \in r}
    /\ CtorNew

NextCtor ==
    \E p \in Procs :
        \/ \E d \in DirectoryFds : CtorCheck(p, d)
        \/ CtorMkdirStore(p)
        \/ CtorMkdirStaging(p)
        \/ CtorOpenStore(p)
        \/ CtorOpenStaging(p)
        \/ CtorOpenFails(p)
        \/ Del(p)

SpecCtor == InitCtor /\ [][NextCtor]_vars

-----------------------------------------------------------------------------
(* _fcntl_flock(fd, lock_type, blocking) on descriptors of one lock file,  *)
(* each opened on its own and so each with its own open file description.  *)

\* The lock of another description stands in the way of the request.
OfdConflict(d, lock_type) ==
    \E e \in Fds \ {d} :
        /\ ofd[e] \in {"R", "W"}
        /\ (lock_type = "W" \/ ofd[e] = "W")

\* os.open of the lock file, as in line 290: a new open file description.
OfdOpen(d) ==
    /\ ofd[d] = "closed"
    /\ ofd' = [ofd EXCEPT ![d] = "none"]
    /\ UNCHANGED flock_last
    /\ UNCHANGED <<cacheVars, keyVars, cmVars, soVars, ctorVars>>

\* os.close, as in line 322: the description goes, and its lock with it.
OfdClose(d) ==
    /\ ofd[d] # "closed"
    /\ ofd' = [ofd EXCEPT ![d] = "closed"]
    /\ UNCHANGED flock_last
    /\ UNCHANGED <<cacheVars, keyVars, cmVars, soVars, ctorVars>>

\* The variant of Flock in which a refused request costs the requester the
\* lock it had.
Flock_DropOnFail(d, lock_type, blocking) ==
    /\ ofd[d] # "closed"
    /\ ~(blocking /\ lock_type # "U" /\ OfdConflict(d, lock_type))
    /\ IF lock_type # "U" /\ OfdConflict(d, lock_type)
       THEN /\ flock_last' = [fd |-> d, lock_type |-> lock_type, blocking |-> blocking,
                              outcome |-> "Locked"]
            /\ ofd' = [ofd EXCEPT ![d] = "none"]
       ELSE /\ flock_last' = [fd |-> d, lock_type |-> lock_type, blocking |-> blocking,
                              outcome |-> "ok"]
            /\ ofd' = [ofd EXCEPT ![d] = IF lock_type = "U" THEN "none" ELSE lock_type]
    /\ UNCHANGED <<cacheVars, keyVars, cmVars, soVars, ctorVars>>

\* The variant of Flock in which an unlock request of a description that
\* holds no lock fails.
Flock_UnlockNeedsLock(d, lock_type, blocking) ==
    /\ ofd[d] # "closed"
    /\ ~(blocking /\ lock_type # "U" /\ OfdConflict(d, lock_type))
    /\ IF (lock_type # "U" /\ OfdConflict(d, lock_type)) \/ (lock_type = "U" /\ ofd[d] = "none")
       THEN /\ flock_last' = [fd |-> d, lock_type |-> lock_type, blocking |-> blocking,
                              outcome |-> "Locked"]
            /\ UNCHANGED ofd
       ELSE /\ flock_last' = [fd |-> d, lock_type |-> lock_type, blocking |-> blocking,
                              outcome |-> "ok"]
            /\ ofd' = [ofd EXCEPT ![d] = IF lock_type = "U" THEN "none" ELSE lock_type]
    /\ UNCHANGED <<cacheVars, keyVars, cmVars, soVars, ctorVars>>

\* Lines 106-186.  With blocking the command is F_OFD_SETLKW (line 120) and
\* the call waits while a lock stands in the way; without, BlockingIOError
\* becomes LockedError (lines 183-186).  A granted request sets the lock of
\* the description to the new type (lines 83-84).
Flock(d, lock_type, blocking) ==
    /\ ofd[d] # "closed"
    /\ ~(blocking /\ lock_type # "U" /\ OfdConflict(d, lock_type))
    /\ IF lock_type # "U" /\ OfdConflict(d, lock_type)
       THEN /\ flock_last' = [fd |-> d, lock_type |-> lock_type, blocking |-> blocking,
                              outcome |-> "Locked"]
            /\ UNCHANGED ofd
       ELSE /\ flock_last' = [fd |-> d, lock_type |-> lock_type, blocking |-> blocking,
                              outcome |-> "ok"]
            /\ ofd' = [ofd EXCEPT ![d] = IF lock_type = "U" THEN "none" ELSE lock_type]
    /\ UNCHANGED <<cacheVars, keyVars, cmVars, soVars, ctorVars>>

InitFlock ==
    /\ CacheIdle
    /\ KeyIdle
    /\ CMIdle
    /\ SOIdle
    /\ CtorIdle
    /\ FlockIdle

NextFlock ==
    \E d \in Fds :
        \/ OfdOpen(d)
        \/ OfdClose(d)
        \/ \E t \in {"R", "W", "U"}, b \in BOOLEAN : Flock(d, t, b)

SpecFlock == InitFlock /\ [][NextFlock]_vars

-----------------------------------------------------------------------------
(* Properties.                                                             *)

Valid(k) == Len(k) >= 1 /\ \A i \in 1..Len(k) : k[i] \in ClassChars

\* Process p begins a call in this step.
Starts(p) == pc[p] = "idle" /\ ncalls'[p] = ncalls[p] + 1

\* The load of process p ends in this step, and not because p was killed.
LoadReturns(p) ==
    /\ call[p].op = "load"
    /\ pc[p] # "idle"
    /\ pc'[p] = "idle"
    /\ result'[p] # "killed"

\* Process p has finished a call of kind op that was not killed.
Finished(p, op) ==
    /\ pc[p] = "idle"
    /\ call[p].op = op
    /\ result[p] \notin {"none", "killed"}

\* C1: on a manager with a root, a load(k) that follows a successful
\* store(k, c), with no maintenance in between, hands out an entry whose
\* content is c.
RoundTrip ==
    \A p \in Procs :
        (/\ mgr[p] = "root"
         /\ ~maintained
         /\ Finished(p, "load")
         /\ fresh[p] # NoStore
         /\ fresh[p].key = call[p].key)
        => handed[p] = fresh[p].content

\* The store of process p ends in this step, and not because p was killed.
StoreReturns(p) ==
    /\ call[p].op = "store"
    /\ pc[p] \in StorePcs
    /\ pc'[p] = "idle"
    /\ result'[p] # "killed"

\* No other process has just stored key k successfully.
OnlyWinner(p, k) ==
    \A q \in Procs \ {p} :
        mgr[q] = "root" /\ fresh[q] # NoStore => fresh[q].key # k

\* Of the store calls on one key, as long as no maintenance has run, at
\* most one is successful, and the others, unless the system fails them,
\* end with DuplicateKey.
StoreWinnerUnique ==
    [][\A p \in Procs :
          (StoreReturns(p) /\ ~maintained /\ result'[p] # "OSError")
          => /\ result'[p] \in {"ok", "DuplicateKey"}
             /\ (result'[p] = "ok" => OnlyWinner(p, call[p].key))]_vars

\* C2: of the store calls on one key exactly one is successful, the others
\* end with DuplicateKey, and the published entry holds the content of the
\* successful call.
StoreOnce ==
    [][\A p \in Procs :
          (StoreReturns(p) /\ ~maintained /\ result'[p] # "OSError")
          => /\ result'[p] \in {"ok", "DuplicateKey"}
             /\ (result'[p] = "ok"
                    => /\ OnlyWinner(p, call[p].key)
                       /\ store'[call[p].key].entry = call[p].content)]_vars

\* C3: every directory under store is either absent or holds both its lock
\* file and its entry subdirectory.
EntriesFullyFormed ==
    \A k \in Keys : store[k] = Absent \/ FullyFormed(store[k])

\* C4: a load that runs while another process stores the same key (and no
\* maintenance runs) either fails with UnknownKey or hands out the entry; it
\* fails with no other error.
LoadMissOrComplete ==
    [][\A p \in Procs :
          (LoadReturns(p) /\ raced[p] /\ ~maintained)
          => (result'[p] = "UnknownKey" \/ handed[p] # "none")]_vars

\* C5: while a load has its handle open, the entry it was given is still in
\* store, whatever maintenance does.
HandlePinsEntry ==
    \A p \in Procs :
        pc[p] \in {"load_yield", "load_close_entry"}
        => /\ FullyFormed(store[call[p].key])
           /\ store[call[p].key].ino = entry_fd[p]

\* A load has its handle open and a maintenance pass is about to ask for
\* the write lock of the same lock file.
HandlePinsEntryWitness ==
    \E p, q \in Procs :
        /\ pc[p] = "load_yield"
        /\ pc[q] = "maint_lock"
        /\ lock_fd[q] = lock_fd[p]

\* C6: a load of an entry that is published and not write-locked hands out
\* the entry, and when the caller's block ends normally the load ends
\* without an error.
LoadSucceeds ==
    [][\A p \in Procs :
          (LoadReturns(p) /\ pub[p] /\ ~maintained)
          => /\ handed[p] # "none"
             /\ (exc[p] = "none" => result'[p] = "ok")]_vars

\* A step of a load of process p.
LoadStep(p) ==
    \/ Starts(p) /\ call'[p].op = "load"
    \/ call[p].op = "load" /\ pc[p] # "idle" /\ pc'[p] # pc[p]

\* C7: a load of a key of which no store has ever begun on the root leaves
\* the store directory as it is and ends with UnknownKey.
LoadBeforeStore ==
    [][\A p \in Procs :
          (mgr[p] = "root" /\ LoadStep(p) /\ Valid(call'[p].key)
             /\ ~started[call'[p].key])
          => /\ store' = store
             /\ (pc'[p] = "idle" /\ result'[p] # "killed"
                    => result'[p] = "UnknownKey")]_vars

LoadBeforeStoreWitness ==
    \E p \in Procs :
        /\ mgr[p] = "root"
        /\ Finished(p, "load")
        /\ call[p].key = KeyA
        /\ ~started[KeyA]
        /\ result[p] = "UnknownKey"

\* C8: on a manager without a root every store of a valid key is successful,
\* every load of a valid key ends with UnknownKey, and neither touches the
\* file system or opens a descriptor.
NoRootNoOp ==
    [][\A p \in Procs :
          (mgr[p] = "noroot" /\ Starts(p) /\ Valid(call'[p].key))
          => /\ pc'[p] = "idle"
             /\ result'[p] = (IF call'[p].op = "store" THEN "ok" ELSE "UnknownKey")
             /\ store' = store
             /\ fdVars' = fdVars]_vars

\* A manager without a root has loaded the key it stored right before.
NoRootNoOpWitness ==
    \E p \in Procs :
        /\ mgr[p] = "noroot"
        /\ Finished(p, "load")
        /\ fresh[p] # NoStore
        /\ fresh[p].key = call[p].key
        /\ result[p] = "UnknownKey"

\* C9: load and store of a key the check rejects end with InvalidKey at
\* once, with the store directory and every descriptor as they were, on a
\* manager with a root and on one without.
InvalidKeyRejected ==
    [][\A p \in Procs :
          (Starts(p) /\ call'[p].op \in {"load", "store"}
             /\ ~_check_dirname(call'[p].key))
          => /\ pc'[p] = "idle"
             /\ result'[p] = "InvalidKey"
             /\ store' = store
             /\ fdVars' = fdVars]_vars

InvalidKeyRejectedWitness ==
    \E p, q \in Procs :
        /\ mgr[p] = "root" /\ mgr[q] = "noroot"
        /\ Finished(p, "store") /\ call[p].key = <<"a", "/", "b">>
        /\ result[p] = "InvalidKey"
        /\ Finished(q, "load") /\ call[q].key = <<"a", " ", "b">>
        /\ result[q] = "InvalidKey"
        /\ store[KeyA] # Absent

\* C10: the key check accepts a string exactly when it is not empty and
\* made of ASCII letters, digits, '-' and '_' alone.
KeyCheckExact ==
    verdict # "unchecked" => ((verdict = "match") <=> Valid(vkey))

\* C11: a store that ends with DuplicateKey has found the name taken at its
\* first file-system step; that step leaves the directory it found, and all
\* of store, as it was, and opens no descriptor.
DuplicateLeavesEntry ==
    [][\A p \in Procs :
          (StoreReturns(p) /\ result'[p] = "DuplicateKey")
          => /\ pc[p] = "store_mkdir"
             /\ store' = store
             /\ fdVars' = fdVars]_vars

\* A store has ended with DuplicateKey on a published entry.
DuplicateLeavesEntryWitness ==
    \E p \in Procs :
        /\ Finished(p, "store")
        /\ result[p] = "DuplicateKey"
        /\ FullyFormed(store[call[p].key])
        /\ store[call[p].key].entry = OldContent

\* C12: when a store fails after it has made its directory, and no other
\* process has used the root, no directory of that name is left in store.
FailedStoreLeavesNothing ==
    [][\A p \in Procs :
          (/\ StoreReturns(p)
           /\ pc[p] \in {"store_opendir", "store_create_lock"}
           /\ result'[p] # "ok"
           /\ \A q \in Procs \ {p} : ncalls[q] = 0)
          => store'[call[p].key] = Absent]_vars

\* Another open file description holds a write lock on the lock file that
\* process p has open.
WriteLockedByOther(p) ==
    \E q \in Procs \ {p} : lock_fd[q] = lock_fd[p] /\ held[q] = "W"

\* C13: a load that asks for the read lock while another description holds
\* the write lock goes on at once, with UnknownKey pending and no lock and no
\* entry handle of its own, and UnknownKey is what the caller gets.
LockedIsAMiss ==
    [][\A p \in Procs :
          /\ (/\ pc[p] = "load_lock" /\ pc'[p] # "load_lock"
               /\ result'[p] # "killed"
               /\ WriteLockedByOther(p))
             => /\ pc'[p] = "load_unlock"
                /\ exc'[p] = "UnknownKey"
                /\ held'[p] = "none"
                /\ entry_fd'[p] = 0
          /\ (LoadReturns(p) /\ exc[p] = "UnknownKey")
             => result'[p] = "UnknownKey"]_vars

\* A load has met a write lock and is on its way out.
LockedIsAMissWitness ==
    \E p \in Procs :
        /\ pc[p] = "load_unlock"
        /\ exc[p] = "UnknownKey"
        /\ WriteLockedByOther(p)

\* C14: a load that has ended, on whatever path, holds no lock and has
\* closed its lock file and its entry handle, so that it is in the way of no
\* write lock that another process asks for.
LoadReleasesAll ==
    \A p \in Procs :
        (pc[p] = "idle" /\ call[p].op = "load")
        => /\ lock_fd[p] = 0
           /\ entry_fd[p] = 0
           /\ held[p] = "none"
           /\ \A q \in Procs \ {p} :
                 (\A r \in Procs \ {p, q} : held[r] = "none") => ~_fcntl_flock(q, "W")

\* A load whose block raised has ended, and a maintenance pass has then
\* obtained the write lock of an entry.
LoadReleasesAllWitness ==
    \E p, q \in Procs :
        /\ Finished(p, "load")
        /\ result[p] = "BodyError"
        /\ pc[q] = "maint_delete"
        /\ call[q].key = call[p].key

\* C18: from the hand-over of the entry handle to the end of the caller's
\* block, and as long as the handle is open, the load holds the read lock of
\* the entry's lock file, and a write lock asked for through any other
\* description of that file is refused.
ReadLockWhileHandle ==
    \A p \in Procs :
        /\ pc[p] \in {"load_yield", "load_close_entry"} => entry_fd[p] # 0
        /\ entry_fd[p] # 0
           => /\ lock_fd[p] # 0
              /\ held[p] = "R"
              /\ \A q \in Procs \ {p} : lock_fd[q] = lock_fd[p] => _fcntl_flock(q, "W")

\* A maintenance pass has been refused the write lock and has skipped the
\* entry whose handle a load still has open.
ReadLockWhileHandleWitness ==
    \E p, q \in Procs :
        /\ pc[p] = "load_yield"
        /\ Finished(q, "maint")
        /\ result[q] = "skipped"
        /\ call[q].key = call[p].key

\* C15: guarded_exit() is not called before the body has ended or
\* guarded_enter() has raised, it has been called exactly once when the
\* with-statement is left, and the caller then gets the exception of
\* guarded_enter() or of the body, whatever guarded_exit() has returned.
GuardedExitOnce ==
    /\ cm_pc \in {"start", "guarded_enter", "body", "guarded_exit"} => cm_exits = 0
    /\ cm_pc \in {"unwind", "done"} => cm_exits = 1
    /\ cm_pc = "done" => cm_result = (IF cm_exc = "none" THEN "ok" ELSE cm_exc)
    /\ cm_pc = "done" /\ cm_value = "none" => cm_result = "EnterError"

\* The body has raised, guarded_exit() has returned True, and the caller
\* has got the exception of the body.
GuardedExitOnceWitness ==
    /\ cm_pc = "done"
    /\ cm_exc = "BodyError"
    /\ cm_ret = "True"
    /\ cm_result = "BodyError"

\* C16: an OSError of the body is suppressed exactly when its errno is one
\* of the error numbers given, at whatever place; otherwise, and always when
\* no error number was given, the caller gets the OSError.
SuppressExact ==
    (so_pc = "done" /\ so_raised.kind = "OSError")
    => /\ so_result \in {"suppressed", "OSError"}
       /\ so_result = "suppressed"
             <=> so_raised.errno \in {so_errnos[i] : i \in 1..Len(so_errnos)}
       /\ so_errnos = <<>> => so_result = "OSError"

\* An OSError whose errno is the second of two given has been suppressed.
SuppressExactWitness ==
    /\ so_pc = "done"
    /\ so_errnos = <<2, 1>>
    /\ so_raised = [kind |-> "OSError", errno |-> 1]
    /\ so_result = "suppressed"

\* The first step of the constructor call of process p.
CtorBegins(p) == init_pc[p] = "new" /\ init_pc'[p] # "new"

\* C17: the constructor accepts None, and ends at once as a manager without
\* descriptors; it rejects a negative directory_fd in its first step, with
\* the root directory as it was, and a rejected manager has no descriptor.
CtorRejectsNegative ==
    [][\A p \in Procs :
          /\ (CtorBegins(p) /\ directory_fd'[p].none)
             => /\ init_pc'[p] = "done" /\ init_result'[p] = "ok"
                /\ root' = root
                /\ _store_fd'[p] = "None" /\ _staging_fd'[p] = "None"
          /\ (CtorBegins(p) /\ ~directory_fd'[p].none /\ directory_fd'[p].fd < 0)
             => /\ init_pc'[p] = "done" /\ init_result'[p] = "AssertionError"
                /\ root' = root
          /\ init_result'[p] = "AssertionError"
             => _store_fd'[p] = "None" /\ _staging_fd'[p] = "None"]_vars

\* On an empty root one constructor call with -1 has been rejected and one
\* with None has ended well.
CtorRejectsNegativeWitness ==
    \E p, q \in Procs :
        /\ init_result[p] = "AssertionError" /\ directory_fd[p] = IntFd(-1)
        /\ init_result[q] = "ok" /\ directory_fd[q] = NoneFd
        /\ root = {}

\* C19: when a description holds a write lock on a lock file, no other
\* description of that file holds a lock; read locks can be held together.
LockCompatible ==
    \A p \in Procs : \A q \in Procs \ {p} :
        (lock_fd[p] # 0 /\ lock_fd[q] = lock_fd[p] /\ held[p] = "W")
        => held[q] = "none"

\* Two loads of one entry have their handles open, each with a read lock.
LockCompatibleWitness ==
    \E p \in Procs : \E q \in Procs \ {p} :
        /\ pc[p] = "load_yield" /\ pc[q] = "load_yield"
        /\ lock_fd[q] = lock_fd[p]
        /\ held[p] = "R" /\ held[q] = "R"

\* C20: a call of _fcntl_flock without blocking, for a read or a write
\* lock that a lock of another description stands in the way of, ends with
\* LockedError and leaves every description with the lock it had.
RefusedLockChangesNothing ==
    [][\A d \in Fds : \A t \in {"R", "W"} :
          (/\ flock_last' # flock_last
           /\ flock_last'.fd = d /\ flock_last'.lock_type = t
           /\ ~flock_last'.blocking
           /\ OfdConflict(d, t))
          => /\ flock_last'.outcome = "Locked"
             /\ ofd' = ofd]_vars

\* Three descriptions hold read locks, and the request of one of them for
\* the write lock has been refused.
RefusedLockChangesNothingWitness ==
    /\ flock_last = [fd |-> 1, lock_type |-> "W", blocking |-> FALSE, outcome |-> "Locked"]
    /\ \A d \in {1, 2, 3} : ofd[d] = "R"

\* C21: an unlock request ends well whatever its description and the others
\* hold; it leaves the description without a lock and the others as they
\* were, so that on a description without a lock it changes nothing.
UnlockIdempotent ==
    [][\A d \in Fds :
          (/\ flock_last' # flock_last
           /\ flock_last'.fd = d /\ flock_last'.lock_type = "U")
          => /\ flock_last'.outcome = "ok"
             /\ ofd' = [ofd EXCEPT ![d] = "none"]
             /\ (ofd[d] = "none" => ofd' = ofd)]_vars

\* A description has been unlocked and holds no lock while another description
\* holds the write lock.
UnlockIdempotentWitness ==
    /\ flock_last = [fd |-> 1, lock_type |-> "U", blocking |-> FALSE, outcome |-> "ok"]
    /\ ofd[1] = "none"
    /\ ofd[2] = "W"

\* C22: a load that was refused the read lock goes on to unlock and to
\* close its own descriptor of the lock file, and these steps leave the
\* locks and the descriptors of the other processes as they were.
FailedLoadKeepsOthersLock ==
    [][\A p \in Procs :
          (/\ call[p].op = "load"
           /\ pc[p] \in {"load_unlock", "load_close_lock"}
           /\ exc[p] = "UnknownKey"
           /\ pc'[p] # pc[p]
           /\ result'[p] # "killed")
          => /\ \A q \in Procs \ {p} : held'[q] = held[q] /\ lock_fd'[q] = lock_fd[q]
             /\ pc[p] = "load_unlock" => pc'[p] = "load_close_lock" /\ held'[p] = "none"
             /\ pc[p] = "load_close_lock" => pc'[p] = "idle" /\ lock_fd'[p] = 0]_vars

\* A load that was refused the read lock has run its unlock, and the other
\* description still holds the write lock.
FailedLoadKeepsOthersLockWitness ==
    \E p \in Procs :
        /\ pc[p] = "load_close_lock"
        /\ exc[p] = "UnknownKey"
        /\ WriteLockedByOther(p)

CodePcs ==
    {"load_open", "load_lock", "load_entry", "load_close_entry", "load_unlock",
     "load_close_lock"} \cup StorePcs

\* C23: a load or store that is running its own statements comes to its end
\* or, for a load, to the caller's with-block, whatever locks the other
\* processes hold and however long they hold them.
NeverWaits ==
    \A p \in Procs : (pc[p] \in CodePcs) ~> (pc[p] \in {"idle", "load_yield"})

\* A first load of the entry that was in store from the beginning has ended
\* as a miss without a handle, while the first call of the other process, a
\* maintenance pass, holds the write lock of that entry.
NeverWaitsWitness ==
    \E p \in Procs : \E q \in Procs \ {p} :
        /\ mgr[p] = "root" /\ ncalls[p] = 1 /\ ncalls[q] = 1
        /\ Finished(p, "load") /\ call[p].key = KeyA
        /\ result[p] = "UnknownKey" /\ handed[p] = "none"
        /\ pc[q] = "maint_delete" /\ held[q] = "W"
        /\ store[KeyA] = Preloaded(1)

\* C24: a process whose store has ended has no descriptor left open from
\* it and holds no lock.
StoreClosesAll ==
    \A p \in Procs :
        (pc[p] = "idle" /\ call[p].op = "store")
        => /\ dir_fd[p] = 0
           /\ lock_fd[p] = 0
           /\ held[p] = "none"

\* C25: __del__ never closes a descriptor more often than the manager has
\* opened it, and once __del__ has run, every descriptor the manager opened
\* has been closed exactly once and the manager holds none.
ClosedExactlyOnce ==
    \A p \in Procs :
        /\ closes[p].store <= opens[p].store /\ opens[p].store <= 1
        /\ closes[p].staging <= opens[p].staging /\ opens[p].staging <= 1
        /\ ndel[p] >= 1
           => /\ closes[p] = opens[p]
              /\ _store_fd[p] = "None" /\ _staging_fd[p] = "None"

\* __del__ has run twice on a manager whose constructor had opened store
\* and had failed to open staging.
ClosedExactlyOnceWitness ==
    \E p \in Procs :
        /\ ndel[p] = 2
        /\ init_result[p] = "OSError"
        /\ opens[p] = [store |-> 1, staging |-> 0]
        /\ closes[p] = opens[p]

\* C26: no step of a constructor removes anything from the root, a root
\* that holds store and staging is left as it is, an os.mkdir that finds its
\* directory (from an earlier manager or from a concurrent constructor) goes
\* on to the next statement without an exception, and a constructor that
\* returns normally leaves both directories in the root.
CtorIdempotent ==
    [][\A p \in Procs :
          /\ root \subseteq root'
          /\ {"store", "staging"} \subseteq root => root' = root
          /\ (init_pc[p] \in {"mkdir_store", "mkdir_staging"} /\ init_pc'[p] # init_pc[p])
             => /\ init_result'[p] = "none"
                /\ init_pc'[p] = (IF init_pc[p] = "mkdir_store"
                                  THEN "mkdir_staging" ELSE "open_store")
          /\ (init_result[p] # "ok" /\ init_result'[p] = "ok" /\ directory_fd'[p] # NoneFd)
             => {"store", "staging"} \subseteq root']_vars

\* Both processes have constructed a manager on the one root, which held
\* store with the published entry a before either began; the entry is there.
CtorIdempotentWitness ==
    /\ \A p \in Procs :
          /\ init_result[p] = "ok" /\ directory_fd[p] = IntFd(3)
          /\ opens[p] = [store |-> 1, staging |-> 1]
    /\ root = {"store", "staging", "store/a"}

LockedByOther(p) ==
    \E q \in Procs \ {p} : lock_fd[q] = lock_fd[p] /\ held[q] # "none"

CallbacksOnce ==
    /\ \A i \in 1..MaxCallbacks : cm_ran[i] <= 1
    /\ cm_pc \in {"start", "guarded_enter", "body", "guarded_exit"}
       => \A i \in 1..MaxCallbacks : cm_ran[i] = 0
    /\ cm_pc = "done"
       => /\ cm_stack = <<>>
          /\ \A i \in 1..MaxCallbacks : cm_ran[i] = (IF i <= cm_nreg THEN 1 ELSE 0)

\* guarded_enter() has registered two callbacks and then raised; the caller
\* has got its exception and each of the two callbacks has run once.
CallbacksOnceWitness ==
    /\ cm_pc = "done"
    /\ cm_exc = "EnterError" /\ cm_result = "EnterError"
    /\ cm_nreg = 2
    /\ cm_ran[1] = 1 /\ cm_ran[2] = 1

====
